---------------------------- MODULE Spec2Model ----------------------------
(***************************************************************************)
(* A model of blogamer (src/src/lib.rs): the content pipeline that turns   *)
(* a directory of markdown posts into a static site.                       *)
(*                                                                         *)
(*   Spec        generate, step by step, over a posts/ directory           *)
(*   SpecStore   sequences of Context::add_static_file calls               *)
(*   SpecRender  render_body, one loop iteration at a time                 *)
(*   SpecLoad    the frontmatter split of collect_post                     *)
(*                                                                         *)
(* Text that the code inspects character by character (file names, raw     *)
(* post text) is a sequence of one-character strings; text that is only    *)
(* built and compared (identifiers, reference paths) is a string.          *)
(***************************************************************************)
EXTENDS Integers, Sequences, FiniteSets, TLC

VARIABLES
    \* generate (Spec)
    pc,              \* the statement generate is about to run
    entries,         \* the entries of <input>/posts, in read_dir order
    optimize,        \* Opts::optimize
    static_files,    \* Context::static_files
    theme_css_path,  \* Context::theme_css_path
    posts,           \* the Vec<Post> collect_posts builds
    idx,             \* the position of `for post in posts`
    html,            \* the String render_post returned for posts[idx]
    out,             \* the output directory on disk
    flushed,         \* the static_files keys the flush loop has visited
    result,          \* what generate returned: "running", "Ok" or an error
    flushStarts,     \* how many times the flush (lines 152-156) was entered
    \* add_static_file call sequences (SpecStore)
    calls,           \* the calls made so far, each with its arguments and effect
    \* render_body (SpecRender, and inside Spec through render_body)
    stream,          \* the events the markdown parser yields
    rs,              \* the state of render_body's while loop
    \* collect_post's frontmatter split (SpecLoad)
    raw,             \* the text read from the post's file
    loaded           \* what the split returned

vars == <<pc, entries, optimize, static_files, theme_css_path, posts, idx, html,
          out, flushed, result, flushStarts, calls, stream, rs, raw, loaded>>

pipelineVars == <<pc, entries, posts, idx, html, out, flushed, result,
                  flushStarts, theme_css_path>>
storeVars == <<calls>>
renderVars == <<stream, rs>>
loadVars == <<raw, loaded>>

(***************************************************************************)
(* Bounds of the model.                                                    *)
(***************************************************************************)
\* Byte buffers are the numbers 0..MaxContent.
MaxContent == 4
\* The number of values of the truncated digest (2^128 in the program).
DigestSpace == 3
\* The longest sequence of add_static_file calls.
MaxCalls == 3
\* The longest event stream handed to render_body.
MaxEvents == 4
\* The longest raw post text, in characters.
MaxText == 9
\* The most entries in posts/.
MaxEntries == 2

(***************************************************************************)
(* Helpers for text.                                                       *)
(***************************************************************************)
Min(S) == CHOOSE x \in S : \A y \in S : x <= y

\* str::starts_with
StartsWith(s, p) == Len(s) >= Len(p) /\ SubSeq(s, 1, Len(p)) = p

\* str::find: the index of the first occurrence of p in s, 0 when there is none
Find(s, p) ==
    LET hits == {i \in 1..(Len(s) + 1 - Len(p)) : SubSeq(s, i, i + Len(p) - 1) = p}
    IN  IF hits = {} THEN 0 ELSE Min(hits)

\* str::strip_prefix
strip_prefix(s, p) ==
    IF StartsWith(s, p)
    THEN [found |-> TRUE, rest |-> SubSeq(s, Len(p) + 1, Len(s))]
    ELSE [found |-> FALSE, rest |-> <<>>]

\* str::split_once: split at the first occurrence of p
split_once(s, p) ==
    LET i == Find(s, p)
    IN  IF i = 0
        THEN [found |-> FALSE, before |-> <<>>, after |-> <<>>]
        ELSE [found |-> TRUE,
              before |-> SubSeq(s, 1, i - 1),
              after |-> SubSeq(s, i + Len(p), Len(s))]

(***************************************************************************)
(* The content-hash asset store: create_hash_string and add_static_file.   *)
(***************************************************************************)
Contents == 0..MaxContent

\* The bs58 alphabet.
Bs58Alphabet ==
    <<"1", "2", "3", "4", "5", "6", "7", "8", "9",
      "A", "B", "C", "D", "E", "F", "G", "H", "J", "K", "L", "M", "N", "P", "Q",
      "R", "S", "T", "U", "V", "W", "X", "Y", "Z",
      "a", "b", "c", "d", "e", "f", "g", "h", "i", "j", "k", "m", "n", "o", "p",
      "q", "r", "s", "t", "u", "v", "w", "x", "y", "z">>

\* bs58::encode of a digest prefix given as a number
RECURSIVE bs58_encode(_)
bs58_encode(v) ==
    IF v < 58
    THEN Bs58Alphabet[v + 1]
    ELSE bs58_encode(v \div 58) \o Bs58Alphabet[(v % 58) + 1]

\* sha2::Sha256::digest(bytes)[..16]: a fixed-width digest of the buffer, so two
\* different buffers can have the same one
digest_prefix(bytes) == bytes % DigestSpace

create_hash_string(bytes) == bs58_encode(digest_prefix(bytes))

\* HashMap::insert: the value under an existing key is replaced
Insert(m, k, v) == [x \in (DOMAIN m) \cup {k} |-> IF x = k THEN v ELSE m[x]]

EmptyMap == [x \in {} |-> 0]

\* A bug add_static_file could have: the identifier numbers the files instead of
\* hashing their content.
add_static_file_counter(store, name, ext, content) ==
    LET id == name \o "-" \o ToString(Cardinality(DOMAIN store)) \o ext
    IN  [ok |-> TRUE, store |-> Insert(store, id, content), path |-> "/static/" \o id]

\* Context::add_static_file: the store after the call and the Ok(path) returned
add_static_file(store, name, ext, content) ==
    LET id == name \o "-" \o create_hash_string(content) \o ext
    IN  [ok |-> TRUE, store |-> Insert(store, id, content), path |-> "/static/" \o id]

(***************************************************************************)
(* The image transcoder: Context::add_image.                               *)
(***************************************************************************)
\* The image files that lie beside the posts.  Every post directory of the
\* model holds the same three: cat.png decodes and encodes to every format,
\* dog.png decodes but has no AVIF encoding, bad.png does not decode.
ImageUrls == {"cat.png", "dog.png", "bad.png"}

\* image::ImageReader::open(path)?.decode()? for path = relative_to.join(dest_url)
ImageFile(relative_to, url) ==
    CASE url = "cat.png" ->
            [ok |-> TRUE, pix |-> 1, width |-> 3, height |-> 2,
             encodable |-> {"Jpeg", "Avif", "WebP"}]
      [] url = "dog.png" ->
            [ok |-> TRUE, pix |-> 2, width |-> 1, height |-> 4,
             encodable |-> {"Jpeg", "WebP"}]
      [] OTHER ->
            [ok |-> FALSE, pix |-> 0, width |-> 0, height |-> 0, encodable |-> {}]

\* Path::file_stem of the image path
file_stem(url) ==
    CASE url = "cat.png" -> "cat"
      [] url = "dog.png" -> "dog"
      [] OTHER -> "bad"

FormatIndex(format) ==
    CASE format = "Jpeg" -> 0
      [] format = "Avif" -> 1
      [] OTHER -> 2

\* image.write_to(&mut bytes, format): the bytes of the image in that format
write_to(image, format) == image.pix * 3 + FormatIndex(format)

\* The closure `encode` of add_image: encode, then register.  reg is the log
\* entry of the registration, empty when the encoder failed.
encode(store, image, name, format, ext) ==
    IF format \in image.encodable
    THEN LET r == add_static_file(store, name, ext, write_to(image, format))
         IN  [ok |-> TRUE, store |-> r.store, path |-> r.path,
              reg |-> <<[ext |-> ext, path |-> r.path]>>]
    ELSE [ok |-> FALSE, store |-> store, path |-> "", reg |-> <<>>]

\* A bug add_image could have: the sources listed least preferred first.
optimized_sources_reversed(avif_path, webp_path) ==
    <<[path |-> webp_path, media_type |-> "image/webp"],
      [path |-> avif_path, media_type |-> "image/avif"]>>

\* The vec![..] of PictureSource that add_image builds when optimizing
optimized_sources(avif_path, webp_path) ==
    <<[path |-> avif_path, media_type |-> "image/avif"],
      [path |-> webp_path, media_type |-> "image/webp"]>>

NoPicture == [sources |-> <<>>, fallback_path |-> "", height |-> 0, width |-> 0]

\* Context::add_image.  regs lists the registrations the call made, in order.
add_image(store, relative_to, url, opt) ==
    LET image == ImageFile(relative_to, url)
        name == file_stem(url)
    IN  IF ~image.ok
        THEN [ok |-> FALSE, err |-> "reading image", store |-> store,
              regs |-> <<>>, pic |-> NoPicture]
        ELSE
        LET jpg == encode(store, image, name, "Jpeg", ".jpg")
        IN  IF ~jpg.ok
            THEN [ok |-> FALSE, err |-> "encoding image", store |-> jpg.store,
                  regs |-> jpg.reg, pic |-> NoPicture]
            ELSE IF ~opt
            THEN [ok |-> TRUE, err |-> "", store |-> jpg.store, regs |-> jpg.reg,
                  pic |-> [sources |-> <<>>, fallback_path |-> jpg.path,
                           height |-> image.height, width |-> image.width]]
            ELSE
            LET avif == encode(jpg.store, image, name, "Avif", ".avif")
            IN  IF ~avif.ok
                THEN [ok |-> FALSE, err |-> "encoding image", store |-> avif.store,
                      regs |-> jpg.reg \o avif.reg, pic |-> NoPicture]
                ELSE
                LET webp == encode(avif.store, image, name, "WebP", ".webp")
                IN  IF ~webp.ok
                    THEN [ok |-> FALSE, err |-> "encoding image",
                          store |-> webp.store,
                          regs |-> jpg.reg \o avif.reg \o webp.reg,
                          pic |-> NoPicture]
                    ELSE [ok |-> TRUE, err |-> "", store |-> webp.store,
                          regs |-> jpg.reg \o avif.reg \o webp.reg,
                          pic |-> [sources |-> optimized_sources(avif.path, webp.path),
                                   fallback_path |-> jpg.path,
                                   height |-> image.height,
                                   width |-> image.width]]

(***************************************************************************)
(* The markdown event rewriter: render_body.                               *)
(***************************************************************************)
\* The events of pulldown_cmark that the rewriter tells apart.
ImageStart(url) == [k |-> "Start", tag |-> "Image", dest_url |-> url]
ImageEnd == [k |-> "End", tag |-> "Image"]
AltText == [k |-> "Text", text |-> "a cat"]
ParagraphStart == [k |-> "Start", tag |-> "Paragraph"]
NoEvent == [k |-> "None"]

EventPool == {ImageStart(u) : u \in ImageUrls} \cup {ImageEnd, AltText, ParagraphStart}

\* The events the rewriter puts in an image's place.  An Event::Html is kept as
\* the element it spells and the values formatted into it.
HtmlBlockStart == [k |-> "Start", tag |-> "HtmlBlock"]
HtmlBlockEnd == [k |-> "End", tag |-> "HtmlBlock"]
PictureOpen == [k |-> "Html", el |-> "<picture>"]
PictureClose == [k |-> "Html", el |-> "</picture>"]
SourceHtml(source) ==
    [k |-> "Html", el |-> "<source>", srcset |-> source.path, type |-> source.media_type]
ImgHtml(src, alt, height, width) ==
    [k |-> "Html", el |-> "<img>", src |-> src, alt |-> alt,
     height |-> height, width |-> width]

\* parser.next() at position pos
next_event(events, pos) == IF pos <= Len(events) THEN events[pos] ELSE NoEvent

\* A bug the rewriter could have: any event after the alt text ends the image.
is_image_end_any(ev) == ev.k # "None"

\* `let Some(Event::End(TagEnd::Image)) = parser.next()`
is_image_end(ev) == ev.k = "End" /\ ev.tag = "Image"

\* `let Some(Event::Text(alt)) = parser.next()`
is_text(ev) == ev.k = "Text"

\* The events pushed for one image
picture_events(pic, alt) ==
    <<HtmlBlockStart, PictureOpen>>
    \o [i \in 1..Len(pic.sources) |-> SourceHtml(pic.sources[i])]
    \o <<ImgHtml(pic.fallback_path, alt, pic.height, pic.width),
         PictureClose, HtmlBlockEnd>>

\* render_body before its loop: nothing consumed, nothing pushed.  opened lists
\* the urls add_image was called for, regs the registrations made.
render_start(store) ==
    [pos |-> 1, events |-> <<>>, store |-> store, status |-> "scanning",
     opened |-> <<>>, regs |-> <<>>]

\* One iteration of `while let Some(ev) = parser.next()`; when the parser is
\* exhausted, the return of Ok(body).
render_iter(st, events, relative_to, opt) ==
    LET ev == next_event(events, st.pos)
    IN  IF ev.k = "None"
        THEN [st EXCEPT !.status = "ok"]
        ELSE IF ev.k = "Start" /\ ev.tag = "Image"
        THEN
            LET alt == next_event(events, st.pos + 1)
                end == next_event(events, st.pos + 2)
            IN  IF ~is_text(alt)
                THEN [st EXCEPT !.status = "No alt text for image tag",
                                !.pos = st.pos + 2]
                ELSE IF ~is_image_end(end)
                THEN [st EXCEPT !.status = "No end tag for image",
                                !.pos = st.pos + 3]
                ELSE
                LET r == add_image(st.store, relative_to, ev.dest_url, opt)
                IN  IF ~r.ok
                    THEN [st EXCEPT !.status = r.err, !.pos = st.pos + 3,
                                    !.store = r.store,
                                    !.opened = Append(st.opened, ev.dest_url),
                                    !.regs = st.regs \o r.regs]
                    ELSE [st EXCEPT !.pos = st.pos + 3,
                                    !.store = r.store,
                                    !.opened = Append(st.opened, ev.dest_url),
                                    !.regs = st.regs \o r.regs,
                                    !.events = st.events \o picture_events(r.pic, alt.text)]
        ELSE [st EXCEPT !.pos = st.pos + 1, !.events = Append(st.events, ev)]

\* render_body: the loop run to its end
RECURSIVE render_loop(_, _, _, _)
render_loop(st, events, relative_to, opt) ==
    IF st.status # "scanning"
    THEN st
    ELSE render_loop(render_iter(st, events, relative_to, opt), events, relative_to, opt)

render_body(store, relative_to, events, opt) ==
    render_loop(render_start(store), events, relative_to, opt)

(***************************************************************************)
(* Variables a specification does not use stay at these values.            *)
(***************************************************************************)
NoOutput == [created |-> FALSE, stale |-> {}, dirs |-> {}, html |-> EmptyMap,
             static_dir |-> FALSE, files |-> EmptyMap]

IdlePipeline ==
    /\ pc = "idle" /\ entries = <<>> /\ posts = <<>> /\ idx = 0 /\ html = <<>>
    /\ out = NoOutput /\ flushed = {} /\ result = "idle" /\ flushStarts = 0
    /\ theme_css_path = ""
IdleStore == calls = <<>>
IdleRender == stream = <<>> /\ rs = render_start(EmptyMap)
IdleLoad == raw = <<>> /\ loaded = [st |-> "none"]

(***************************************************************************)
(* SpecStore: any sequence of add_static_file calls on one Context.        *)
(***************************************************************************)
LogicalNames == {"theme", "cat"}
Extensions == {".css", ".jpg"}

InitStore ==
    /\ static_files = EmptyMap
    /\ optimize = FALSE
    /\ IdlePipeline /\ IdleStore /\ IdleRender /\ IdleLoad

\* ctx.add_static_file(name, ext, content)
AddStaticFile(name, ext, content) ==
    /\ Len(calls) < MaxCalls
    /\ LET r == add_static_file(static_files, name, ext, content)
       IN  /\ static_files' = r.store
           /\ calls' = Append(calls,
                  [name |-> name, ext |-> ext, content |-> content,
                   ok |-> r.ok, path |-> r.path,
                   before |-> static_files, after |-> r.store])
    /\ UNCHANGED <<optimize, pipelineVars, renderVars, loadVars>>

NextStore ==
    \E name \in LogicalNames, ext \in Extensions, content \in Contents :
        AddStaticFile(name, ext, content)

SpecStore == InitStore /\ [][NextStore]_vars

SameArguments(c, d) == c.name = d.name /\ c.ext = d.ext /\ c.content = d.content

\* C3: a call whose identifier is already in the store with different bytes
\* fails and leaves the stored bytes as they were.
C3_NoOverwrite ==
    \A i \in 1..Len(calls) :
        \A id \in DOMAIN calls[i].before :
            (calls[i].path = "/static/" \o id /\ calls[i].before[id] # calls[i].content)
                => (~calls[i].ok /\ calls[i].after = calls[i].before)

\* C4: a call repeated with the same arguments returns the same reference path,
\* leaves the store as the first call left it, and the two calls together add
\* at most one asset.
C4_Idempotent ==
    \A i \in 2..Len(calls) :
        SameArguments(calls[i - 1], calls[i]) =>
            /\ calls[i].ok /\ calls[i - 1].ok
            /\ calls[i].path = calls[i - 1].path
            /\ calls[i].after = calls[i].before
            /\ Cardinality(DOMAIN calls[i].after)
                   <= Cardinality(DOMAIN calls[i - 1].before) + 1

\* C4's case: a repeated call on a store that already held another asset, the
\* first of the two adding one.
C4_Witness ==
    \E i \in 2..Len(calls) :
        /\ SameArguments(calls[i - 1], calls[i])
        /\ calls[i - 1].before # EmptyMap
        /\ Cardinality(DOMAIN calls[i].after)
               = Cardinality(DOMAIN calls[i - 1].before) + 1

(***************************************************************************)
(* SpecRender: render_body on any event stream, one iteration per step.    *)
(***************************************************************************)
Streams == UNION {[1..n -> EventPool] : n \in 0..MaxEvents}

InitRender ==
    /\ stream \in Streams
    /\ optimize \in BOOLEAN
    /\ rs = render_start(EmptyMap)
    /\ static_files = EmptyMap
    /\ IdlePipeline /\ IdleStore /\ IdleLoad

\* One iteration of render_body's loop
RenderStep ==
    /\ rs.status = "scanning"
    /\ rs' = render_iter(rs, stream, "posts", optimize)
    /\ UNCHANGED <<stream, optimize, static_files, pipelineVars, storeVars, loadVars>>

NextRender == RenderStep

SpecRender == InitRender /\ [][NextRender]_vars

StructureErrors == {"No alt text for image tag", "No end tag for image"}

\* What one step of the three-state rewriter must do from Scanning.
C7_Step ==
    LET ev == next_event(stream, rs.pos)
        e1 == next_event(stream, rs.pos + 1)
        e2 == next_event(stream, rs.pos + 2)
        added == SubSeq(rs'.events, Len(rs.events) + 1, Len(rs'.events))
    IN  (rs.status = "scanning" /\ rs' # rs /\ ev # NoEvent) =>
            IF ev.k = "Start" /\ ev.tag = "Image"
            THEN IF e1.k = "Text" /\ e2 = ImageEnd
                 THEN /\ rs'.status \notin StructureErrors
                      /\ rs'.opened = Append(rs.opened, ev.dest_url)
                      /\ rs'.pos = rs.pos + 3
                      /\ rs'.status = "scanning" =>
                            /\ SubSeq(rs'.events, 1, Len(rs.events)) = rs.events
                            /\ Len(added) >= 4
                            /\ added[1] = HtmlBlockStart
                            /\ added[Len(added)] = HtmlBlockEnd
                            /\ \A j \in 1..Len(added) : added[j] \notin {ev, e1, e2}
                 ELSE /\ rs'.status \in StructureErrors
                      /\ rs'.opened = rs.opened
                      /\ rs'.regs = rs.regs
                      /\ rs'.store = rs.store
                      /\ rs'.events = rs.events
            ELSE /\ rs'.status = "scanning"
                 /\ rs'.pos = rs.pos + 1
                 /\ rs'.events = Append(rs.events, ev)
                 /\ rs'.opened = rs.opened /\ rs'.store = rs.store

\* C7: at an image start the rewriter takes the next two events; unless they
\* are a text and an image end it fails without transcoding or registering
\* anything; otherwise the three events are replaced and scanning goes on with
\* the event after the image end.  Every other event passes through.
C7_Rewriter == [][C7_Step]_vars

\* C7's case: an image was rewritten and the event after its end passed through.
C7_Witness ==
    /\ rs.status = "ok"
    /\ Len(rs.opened) = 1
    /\ Len(stream) = 4
    /\ stream[4] = ParagraphStart
    /\ rs.events[Len(rs.events)] = ParagraphStart

\* What the step that rewrites an image must push and register.
C8_Step ==
    (rs.status = "scanning" /\ rs'.status = "scanning"
        /\ Len(rs'.opened) = Len(rs.opened) + 1) =>
        LET url == rs'.opened[Len(rs'.opened)]
            image == ImageFile("posts", url)
            alt == next_event(stream, rs.pos + 1).text
            new == SubSeq(rs'.regs, Len(rs.regs) + 1, Len(rs'.regs))
            added == SubSeq(rs'.events, Len(rs.events) + 1, Len(rs'.events))
            img == [k |-> "Html", el |-> "<img>", src |-> new[1].path, alt |-> alt,
                    height |-> image.height, width |-> image.width]
        IN  IF optimize
            THEN /\ [i \in 1..Len(new) |-> new[i].ext] = <<".jpg", ".avif", ".webp">>
                 /\ added = <<HtmlBlockStart, PictureOpen,
                              [k |-> "Html", el |-> "<source>",
                               srcset |-> new[2].path, type |-> "image/avif"],
                              [k |-> "Html", el |-> "<source>",
                               srcset |-> new[3].path, type |-> "image/webp"],
                              img, PictureClose, HtmlBlockEnd>>
            ELSE /\ [i \in 1..Len(new) |-> new[i].ext] = <<".jpg">>
                 /\ added = <<HtmlBlockStart, PictureOpen, img, PictureClose,
                              HtmlBlockEnd>>

\* C8: a rewritten image becomes picture open, the sources in descriptor order,
\* one fallback img with the alt text and the dimensions, picture close; with
\* optimization the sources are avif then webp after three registrations, jpg
\* first; without it there is no source and the one registration is the jpg.
C8_PictureMarkup == [][C8_Step]_vars

\* C8's case: with optimization on, an image was rewritten into a picture with
\* two sources.
C8_Witness ==
    /\ optimize
    /\ rs.status = "ok"
    /\ Len(rs.regs) = 3
    /\ \E j \in 1..Len(rs.events) : rs.events[j] = PictureClose

(***************************************************************************)
(* The post loader: collect_post.                                          *)
(*                                                                         *)
(* Raw post text is written over three characters: "-", "\n", and "T",     *)
(* which abbreviates a well-formed header `title: ..` / `date: ..`.        *)
(***************************************************************************)
Chars == {"-", "\n", "T"}

\* The literal "---\n"
Delimiter == <<"-", "-", "-", "\n">>

\* serde_norway::from_str::<Frontmatter>(frontmatter): whether the header holds
\* the two required keys
frontmatter_parses(header) == \E i \in 1..Len(header) : header[i] = "T"

\* collect_post from `let rest = content.strip_prefix(..)` on: the split of the
\* text into frontmatter and body
load_text(content) ==
    LET p == strip_prefix(content, Delimiter)
    IN  IF ~p.found
        THEN [st |-> "err", err |-> "post must start with ---"]
        ELSE
        LET s == split_once(p.rest, Delimiter)
        IN  IF ~s.found
            THEN [st |-> "err", err |-> "unterminated frontmatter"]
            ELSE IF ~frontmatter_parses(s.before)
            THEN [st |-> "err", err |-> "invalid frontmatter"]
            ELSE [st |-> "ok", frontmatter |-> s.before, body |-> s.after]

\* collect_post: the Post of one entry of posts/, or the error.  An entry is
\* [fname, is_dir, readable, content, events]: its file name, whether it is a
\* directory, whether its markdown file can be read, the text read, and the
\* events the markdown parser yields for the body.
collect_post(entry) ==
    LET dot == split_once(entry.fname, <<".">>)
        named ==
            IF entry.is_dir
            THEN IF entry.readable
                 THEN [ok |-> TRUE, name |-> entry.fname, relative_to |-> entry.fname]
                 ELSE [ok |-> FALSE, err |-> "could not read index.md"]
            ELSE IF ~dot.found
            THEN [ok |-> FALSE, err |-> "invalid post filename, must be *.md"]
            ELSE IF dot.after # <<"m", "d">>
            THEN [ok |-> FALSE, err |-> "only .md extensions are allowed"]
            ELSE IF ~entry.readable
            THEN [ok |-> FALSE, err |-> "reading contents"]
            ELSE [ok |-> TRUE, name |-> dot.before, relative_to |-> <<>>]
    IN  IF ~named.ok
        THEN named
        ELSE
        LET t == load_text(entry.content)
        IN  IF t.st # "ok"
            THEN [ok |-> FALSE, err |-> t.err]
            ELSE [ok |-> TRUE, err |-> "",
                  post |-> [name |-> named.name,
                            relative_to |-> named.relative_to,
                            frontmatter |-> t.frontmatter,
                            body_md |-> t.body,
                            events |-> entry.events]]

(***************************************************************************)
(* SpecLoad: the frontmatter split on any text.                            *)
(***************************************************************************)
Texts == UNION {[1..n -> Chars] : n \in 0..MaxText}

InitLoad ==
    /\ raw \in Texts
    /\ loaded = [st |-> "none"]
    /\ static_files = EmptyMap
    /\ optimize = FALSE
    /\ IdlePipeline /\ IdleStore /\ IdleRender

\* The split applied to the text
LoadText ==
    /\ loaded.st = "none"
    /\ loaded' = load_text(raw)
    /\ UNCHANGED <<raw, static_files, optimize, pipelineVars, storeVars, renderVars>>

NextLoad == LoadText

SpecLoad == InitLoad /\ [][NextLoad]_vars

\* Where a closing delimiter line starts in the text after the opening one: a
\* line that consists of `---`.
ClosingLines(rest) ==
    {i \in 1..(Len(rest) - 3) :
        /\ SubSeq(rest, i, i + 3) = Delimiter
        /\ (i = 1 \/ rest[i - 1] = "\n")}

\* C9: text that opens with the delimiter line is split at its first closing
\* delimiter line, the header the text before that line and the body the text
\* after it; text without the opening line or without a closing line is
\* rejected.
C9_SplitAtDelimiterLine ==
    loaded.st # "none" =>
        LET rest == SubSeq(raw, Len(Delimiter) + 1, Len(raw))
        IN  IF StartsWith(raw, Delimiter) /\ ClosingLines(rest) # {}
            THEN LET i == Min(ClosingLines(rest))
                 IN  /\ loaded.st = "err" => loaded.err = "invalid frontmatter"
                     /\ loaded.st = "ok" =>
                            /\ loaded.frontmatter = SubSeq(rest, 1, i - 1)
                            /\ loaded.body = SubSeq(rest, i + 4, Len(rest))
            ELSE loaded.st = "err"

(***************************************************************************)
(* Spec: generate, one statement per step.  A crash is the run stopping in *)
(* whatever state it has reached.                                          *)
(***************************************************************************)
\* include_bytes!("../templates/theme.css")
ThemeCss == 0

GoodText == Delimiter \o <<"T", "\n">> \o Delimiter
UnterminatedText == Delimiter \o <<"T", "\n">>

\* The entries posts/ is populated from.
EntryPool ==
    { [fname |-> <<"a", ".", "m", "d">>, is_dir |-> FALSE, readable |-> TRUE,
       content |-> GoodText,
       events |-> <<ParagraphStart, ImageStart("cat.png"), AltText, ImageEnd>>],
      [fname |-> <<"a">>, is_dir |-> TRUE, readable |-> TRUE,
       content |-> GoodText,
       events |-> <<ImageStart("dog.png"), AltText, ImageEnd>>],
      [fname |-> <<"b", ".", "m", "d">>, is_dir |-> FALSE, readable |-> TRUE,
       content |-> GoodText,
       events |-> <<ParagraphStart, AltText>>],
      [fname |-> <<"b", ".", "m", "d">>, is_dir |-> FALSE, readable |-> TRUE,
       content |-> UnterminatedText,
       events |-> <<>>],
      [fname |-> <<"c">>, is_dir |-> TRUE, readable |-> FALSE,
       content |-> <<>>,
       events |-> <<>>],
      [fname |-> <<"c", ".", "t">>, is_dir |-> FALSE, readable |-> TRUE,
       content |-> GoodText,
       events |-> <<>>],
      [fname |-> <<"d">>, is_dir |-> TRUE, readable |-> TRUE,
       content |-> GoodText,
       events |-> <<ImageStart("cat.png"), ImageEnd>>] }

\* The listings read_dir can return: no file name twice.
Listings ==
    {l \in UNION {[1..n -> EntryPool] : n \in 0..MaxEntries} :
        \A i, j \in 1..Len(l) : i # j => l[i].fname # l[j].fname}

\* What an earlier run can have left in the output directory.
StaleParts == {"static", "posts"}

Init ==
    /\ pc = "add_theme"
    /\ entries \in Listings
    /\ optimize \in BOOLEAN
    /\ static_files = EmptyMap
    /\ theme_css_path = ""
    /\ posts = <<>>
    /\ idx = 0
    /\ html = <<>>
    /\ out \in {[NoOutput EXCEPT !.stale = s] : s \in SUBSET StaleParts}
    /\ flushed = {}
    /\ result = "running"
    /\ flushStarts = 0
    /\ IdleStore /\ IdleRender /\ IdleLoad

\* The post's page as PostTemplate renders it
render_template(post, body, theme) ==
    [title |-> post.frontmatter, body |-> body, theme_css_path |-> theme]

\* The /static/ paths a page refers to
References(doc) ==
    {doc.theme_css_path}
    \cup {doc.body[i].srcset : i \in {j \in 1..Len(doc.body) :
              doc.body[j].k = "Html" /\ doc.body[j].el = "<source>"}}
    \cup {doc.body[i].src : i \in {j \in 1..Len(doc.body) :
              doc.body[j].k = "Html" /\ doc.body[j].el = "<img>"}}

\* A bug the loop could have: it stops one post early.
all_posts_done_early(i, n) == i >= n

\* `for post in posts` has no post left
all_posts_done(i, n) == i > n

loop_pc(i, n) == IF all_posts_done(i, n) THEN "create_static" ELSE "create_dir"

\* collect_posts after one entry: `?` returns the error, the last entry ends
\* the loop
after_collect(ok, collected, total) ==
    IF ~ok THEN "failed"
    ELSE IF collected = total THEN "initialize" ELSE "collect"

\* A bug generate could have: the result of create_dir_all is dropped.
after_initialize_ignored(ok, n) == loop_pc(1, n)

\* `write::initialize(..).wrap_err(..)?`
after_initialize(ok, n) == IF ok THEN loop_pc(1, n) ELSE "failed"

\* A bug the flush could have: it stops after the first file.
flush_done_first(visited, store) == visited # {}

\* `for (name, content) in ctx.static_files` has no file left
flush_done(visited, store) == visited = DOMAIN store

\* lines 128-136: theme.css is registered
AddTheme ==
    /\ pc = "add_theme"
    /\ LET r == add_static_file(static_files, "theme", ".css", ThemeCss)
       IN  /\ static_files' = r.store
           /\ theme_css_path' = r.path
           /\ pc' = "read_dir"
    /\ UNCHANGED <<entries, optimize, posts, idx, html, out, flushed, result,
                   flushStarts, storeVars, renderVars, loadVars>>

\* collect_posts: std::fs::read_dir(path)?
ReadDir ==
    /\ pc = "read_dir"
    /\ \E ok \in BOOLEAN :
        /\ pc' = after_collect(ok, 0, Len(entries))
        /\ result' = IF ok THEN result ELSE "reading posts"
    /\ UNCHANGED <<entries, optimize, static_files, theme_css_path, posts, idx,
                   html, out, flushed, flushStarts, storeVars, renderVars, loadVars>>

\* collect_posts: one iteration of `for entry in entries`
CollectPost ==
    /\ pc = "collect"
    /\ LET r == collect_post(entries[Len(posts) + 1])
       IN  /\ posts' = IF r.ok THEN Append(posts, r.post) ELSE posts
           /\ pc' = after_collect(r.ok, Len(posts) + 1, Len(entries))
           /\ result' = IF r.ok THEN result ELSE r.err
    /\ UNCHANGED <<entries, optimize, static_files, theme_css_path, idx, html,
                   out, flushed, flushStarts, storeVars, renderVars, loadVars>>

\* write::initialize: the result of remove_dir_all is dropped, so any part of
\* an earlier run's output can stay; then create_dir_all
Initialize ==
    /\ pc = "initialize"
    /\ \E kept \in SUBSET out.stale, ok \in BOOLEAN :
        /\ out' = [out EXCEPT !.stale = kept, !.created = ok]
        /\ pc' = after_initialize(ok, Len(posts))
        /\ result' = IF ok THEN result ELSE "initializing output"
    /\ idx' = 1
    /\ UNCHANGED <<entries, optimize, static_files, theme_css_path, posts, html,
                   flushed, flushStarts, storeVars, renderVars, loadVars>>

\* line 145: std::fs::create_dir_all(&dir)?
CreatePostDir ==
    /\ pc = "create_dir"
    /\ \E ok \in BOOLEAN :
        /\ out' = IF ok THEN [out EXCEPT !.dirs = @ \cup {posts[idx].name}] ELSE out
        /\ pc' = IF ok THEN "render" ELSE "failed"
        /\ result' = IF ok THEN result ELSE "creating post directory"
    /\ UNCHANGED <<entries, optimize, static_files, theme_css_path, posts, idx,
                   html, flushed, flushStarts, storeVars, renderVars, loadVars>>

\* A bug generate could have: a post that fails to render is written anyway.
after_render_swallow(status) == "write"

\* `render_post(&mut ctx, &post)?`
after_render(status) == IF status = "ok" THEN "write" ELSE "failed"

\* line 147: render_post, that is render_body and the template
RenderPost ==
    /\ pc = "render"
    /\ LET r == render_body(static_files, posts[idx].relative_to,
                            posts[idx].events, optimize)
       IN  /\ static_files' = r.store
           /\ html' = IF r.status = "ok"
                      THEN render_template(posts[idx], r.events, theme_css_path)
                      ELSE render_template(posts[idx], <<>>, theme_css_path)
           /\ pc' = after_render(r.status)
           /\ result' = IF pc' = "failed" THEN r.status ELSE result
    /\ UNCHANGED <<entries, optimize, theme_css_path, posts, idx, out, flushed,
                   flushStarts, storeVars, renderVars, loadVars>>

\* line 149: std::fs::write(dir.join("index.html"), html)?.  A failed write
\* leaves the file as it was or truncated.
WritePost ==
    /\ pc = "write"
    /\ \E outcome \in {"written", "untouched", "truncated"} :
        /\ out' = IF outcome = "untouched"
                  THEN out
                  ELSE [out EXCEPT !.html = Insert(@, posts[idx].name,
                            [src |-> idx, complete |-> outcome = "written",
                             doc |-> html])]
        /\ pc' = IF outcome = "written"
                 THEN loop_pc(idx + 1, Len(posts))
                 ELSE "failed"
        /\ idx' = IF outcome = "written" THEN idx + 1 ELSE idx
        /\ result' = IF outcome = "written" THEN result ELSE "writing index.html"
    /\ UNCHANGED <<entries, optimize, static_files, theme_css_path, posts, html,
                   flushed, flushStarts, storeVars, renderVars, loadVars>>

\* line 153: std::fs::create_dir(&static_dir): fails when static/ is there
CreateStatic ==
    /\ pc = "create_static"
    /\ flushStarts' = flushStarts + 1
    /\ \E ok \in IF "static" \in out.stale THEN {FALSE} ELSE BOOLEAN :
        /\ out' = [out EXCEPT !.static_dir = ok]
        /\ pc' = IF ok THEN "write_static" ELSE "failed"
        /\ result' = IF ok THEN result ELSE "creating static"
    /\ UNCHANGED <<entries, optimize, static_files, theme_css_path, posts, idx,
                   html, flushed, storeVars, renderVars, loadVars>>

\* lines 154-156: one iteration of the flush, in the HashMap's order; after the
\* last one, Ok(())
WriteStatic ==
    /\ pc = "write_static"
    /\ \E id \in (DOMAIN static_files) \ flushed,
          outcome \in {"written", "untouched", "truncated"} :
        /\ out' = IF outcome = "untouched"
                  THEN out
                  ELSE [out EXCEPT !.files = Insert(@, id,
                            [content |-> static_files[id],
                             complete |-> outcome = "written"])]
        /\ flushed' = flushed \cup {id}
        /\ pc' = IF outcome # "written" THEN "failed"
                 ELSE IF flush_done(flushed', static_files) THEN "done"
                 ELSE "write_static"
        /\ result' = IF outcome # "written" THEN "writing static file"
                     ELSE IF pc' = "done" THEN "Ok" ELSE result
    /\ UNCHANGED <<entries, optimize, static_files, theme_css_path, posts, idx,
                   html, flushStarts, storeVars, renderVars, loadVars>>

Next ==
    \/ AddTheme
    \/ ReadDir
    \/ CollectPost
    \/ Initialize
    \/ CreatePostDir
    \/ RenderPost
    \/ WritePost
    \/ CreateStatic
    \/ WriteStatic

Spec == Init /\ [][Next]_vars

(***************************************************************************)
(* The claims about generate.                                              *)
(***************************************************************************)
\* The posts whose index.html, written by this run, is in the output
PostsInOutput == {out.html[slug].src : slug \in DOMAIN out.html}

CompletedPosts ==
    {out.html[slug].src : slug \in {t \in DOMAIN out.html : out.html[t].complete}}

C1_FlushOnce == flushStarts <= 1 /\ (result = "Ok" => flushStarts = 1)

C1_FlushStep ==
    /\ (out'.files # out.files \/ out'.static_dir # out.static_dir) =>
            /\ idx = Len(entries) + 1
            /\ Len(posts) = Len(entries)
    /\ flushStarts > 0 => static_files' = static_files

\* C1: the flush is entered at most once, and once in a run that returns Ok;
\* static/ and its files are written only when every discovered post has been
\* rendered and written; nothing is registered once the flush has started.
C1_FlushAfterAllPosts == []C1_FlushOnce /\ [][C1_FlushStep]_vars

\* C1's case: a run over two posts flushed several assets and returned Ok.
C1_Witness ==
    result = "Ok" /\ Len(posts) = 2 /\ Cardinality(DOMAIN out.files) > 1

\* Every reference of every complete page of the output has its file.
ReferencesResolve ==
    \A slug \in DOMAIN out.html :
        out.html[slug].complete =>
            \A ref \in References(out.html[slug].doc) :
                \E id \in DOMAIN out.files :
                    ref = "/static/" \o id /\ out.files[id].complete

FailsToLoad(entry) == ~collect_post(entry).ok

FailsToRender(entry) ==
    /\ collect_post(entry).ok
    /\ render_body(EmptyMap, collect_post(entry).post.relative_to,
                   entry.events, optimize).status # "ok"

\* C5: when loading, rewriting or transcoding fails for a post, generate
\* returns an error, neither that post nor a later one is rendered or written,
\* and the flush is never started.
C5_AbortOnFirstError ==
    \A j \in 1..Len(entries) :
        (FailsToLoad(entries[j]) \/ FailsToRender(entries[j])) =>
            /\ result # "Ok"
            /\ pc \notin {"create_static", "write_static", "done"}
            /\ \A i \in PostsInOutput : i < j
            /\ idx <= j
            /\ pc = "write" => idx < j
            /\ flushStarts = 0
            /\ out.files = EmptyMap /\ ~out.static_dir
            /\ FailsToLoad(entries[j]) => (idx = 0 /\ out.html = EmptyMap)
            /\ pc = "failed" => result \notin {"running", "Ok"}

\* C5's case: the first post was written, the second failed to render, and
\* the run returned that error.
C5_Witness ==
    /\ pc = "failed"
    /\ Len(entries) = 2
    /\ FailsToRender(entries[2])
    /\ CompletedPosts = {1}
    /\ result \in StructureErrors \cup {"reading image", "encoding image"}

C10_DistinctSlugs ==
    result = "Ok" =>
        /\ \A i, j \in 1..Len(posts) : i # j => posts[i].name # posts[j].name
        /\ Cardinality(DOMAIN out.html) = Len(posts)
        /\ CompletedPosts = 1..Len(posts)

=============================================================================
